---- MODULE Spec2Model ----
(***************************************************************************)
(* A model of kernel_ci (src/kernel_ci.py): the kernel version reader, the *)
(* recursive patch driver, the prerequisite and VM-existence guards, the   *)
(* VM lifecycle commands and the vm-test protocol.                         *)
(*                                                                         *)
(* Text is modelled as a sequence of one-character strings, so that        *)
(* str.split, str.strip, str.startswith, str.endswith and file iteration   *)
(* are computed on the characters as Python computes them.                 *)
(***************************************************************************)
EXTENDS Integers, Sequences, FiniteSets, TLC

VARIABLES
    makefile,   \* text of <kernel>/Makefile
    vout,       \* outcome of the last `version` call
    ptree,      \* the patch tree: each directory's .config manifest, if any
    ktree,      \* the kernel tree: the content of each region patches touch
    pstack,     \* the frames of _kernel_patch, innermost last
    handed,     \* the patch files given to the patch tool by this invocation
    visited,    \* the directories _kernel_patch was called on by this invocation
    prun,       \* this `patch` invocation: status, direction, tree before it
    plog,       \* the finished earlier `patch` invocations
    installed,  \* the packages dpkg reports as installed
    hyp,        \* each hypervisor's VMs: absent, stopped or running
    pc,         \* where vm_test stands; "idle" when no vm_test is running
    out,        \* the command or call last started and how it ended
    calls,      \* the guarded calls it made, in order
    ext,        \* its actions on the outside world, in order
    loc,        \* the arguments and locals of vm_test
    session     \* the remote shell session: "none" or "open"

versionVars == <<makefile, vout>>

patchVars == <<ptree, ktree, pstack, handed, visited, prun, plog>>

vmVars == <<installed, hyp, pc, out, calls, ext, loc, session>>

vars == <<makefile, vout, ptree, ktree, pstack, handed, visited, prun, plog,
          installed, hyp, pc, out, calls, ext, loc, session>>

(***************************************************************************)
(* Python text primitives                                                  *)
(***************************************************************************)
NL == "\n"

Whitespace == {" ", "\n", "\t", "\r"}

RECURSIVE Concat(_)
Concat(ss) == IF ss = <<>> THEN <<>> ELSE Head(ss) \o Concat(Tail(ss))

\* str.startswith / str.endswith
startswith(s, p) == Len(p) <= Len(s) /\ SubSeq(s, 1, Len(p)) = p

endswith(s, p) == Len(p) <= Len(s) /\ SubSeq(s, Len(s) - Len(p) + 1, Len(s)) = p

\* str.strip(): drop leading and trailing whitespace
RECURSIVE lstrip(_)
lstrip(s) == IF s # <<>> /\ Head(s) \in Whitespace THEN lstrip(Tail(s)) ELSE s

RECURSIVE rstrip(_)
rstrip(s) ==
    IF s # <<>> /\ s[Len(s)] \in Whitespace THEN rstrip(SubSeq(s, 1, Len(s) - 1)) ELSE s

strip(s) == rstrip(lstrip(s))

\* str.find(sep) + 1: the position of the leftmost occurrence of sep, 0 if none
find(s, sep) ==
    LET hits == {i \in 1..(Len(s) - Len(sep) + 1) : SubSeq(s, i, i + Len(sep) - 1) = sep}
    IN  IF hits = {} THEN 0 ELSE CHOOSE i \in hits : \A j \in hits : i <= j

\* str.split(sep), sep non-empty: cut at every occurrence, left to right
RECURSIVE split(_, _)
split(s, sep) ==
    LET i == find(s, sep)
    IN  IF i = 0 THEN <<s>>
        ELSE <<SubSeq(s, 1, i - 1)>> \o split(SubSeq(s, i + Len(sep), Len(s)), sep)

\* sep.join(parts)
RECURSIVE join(_, _)
join(sep, parts) ==
    IF parts = <<>> THEN <<>>
    ELSE IF Len(parts) = 1 THEN parts[1]
    ELSE parts[1] \o sep \o join(sep, Tail(parts))

\* iterating a text file / file.readlines(): each line keeps its newline; a
\* last line without one is still a line
RECURSIVE readlines(_)
readlines(text) ==
    IF text = <<>> THEN <<>>
    ELSE LET i == find(text, <<NL>>)
         IN  IF i = 0 THEN <<text>>
             ELSE <<SubSeq(text, 1, i)>> \o readlines(SubSeq(text, i + 1, Len(text)))

\* itertools.islice(it, n): the first n items, fewer when the iterator is shorter
islice(items, n) == SubSeq(items, 1, IF Len(items) < n THEN Len(items) ELSE n)

\* list.count(x)
count(items, x) == Cardinality({i \in 1..Len(items) : items[i] = x})

(***************************************************************************)
(* A call's outcome: exc is "" when the call returned, else the exception. *)
(***************************************************************************)
Returned(v) == [exc |-> "", ret |-> v]

Raised(e) == [exc |-> e, ret |-> <<>>]

NoCall == [st |-> "idle", exc |-> "", ret |-> <<>>]

Done(r) == [st |-> "done", exc |-> r.exc, ret |-> r.ret]

(***************************************************************************)
(* _kernel_version                                                         *)
(***************************************************************************)
HeadLines == 4

FieldSep == <<" ", "=", " ">>

Dot == <<".">>

\* line.split(' = ')[1].strip(); IndexError when the line has no ' = '
FieldOf(line) == strip(split(line, FieldSep)[2])

HasField(line) == Len(split(line, FieldSep)) >= 2

\* the same reader without the [1:] slice that drops the first line
_kernel_version_keep_first(text) ==
    LET body == islice(readlines(text), HeadLines)
    IN  IF \E i \in 1..Len(body) : ~HasField(body[i])
        THEN Raised("IndexError")
        ELSE Returned(join(Dot, [i \in 1..Len(body) |-> FieldOf(body[i])]))

_kernel_version(text) ==
    LET first == islice(readlines(text), HeadLines)
        body == SubSeq(first, 2, Len(first))
    IN  IF \E i \in 1..Len(body) : ~HasField(body[i])
        THEN Raised("IndexError")
        ELSE Returned(join(Dot, [i \in 1..Len(body) |-> FieldOf(body[i])]))

(***************************************************************************)
(* Build manifests the version reader is run on: up to MaxLines lines,     *)
(* each one of the shapes below.                                           *)
(***************************************************************************)
MaxLines == 5

Pad == {<<>>, <<" ">>}

Eol == {<<NL>>, <<>>}

\* the text of a line 'KEY = value', with optional blanks around the value
FormatLine(key, padl, val, padr, eol) == key \o FieldSep \o padl \o val \o padr \o eol

kVERSION == <<"V", "E", "R", "S", "I", "O", "N">>

kPATCHLEVEL == <<"P", "A", "T", "C", "H", "L", "E", "V", "E", "L">>

kSUBLEVEL == <<"S", "U", "B", "L", "E", "V", "E", "L">>

Keys == {kVERSION, kPATCHLEVEL, kSUBLEVEL}

Values == {<<"5">>, <<"1", "0">>, <<"0">>, <<"1">>}

LineComment == <<"#", " ", "S", "P", "D", "X", NL>>

LineVersion == FormatLine(kVERSION, <<>>, <<"5">>, <<>>, <<NL>>)

LinePatchlevel == FormatLine(kPATCHLEVEL, <<>>, <<"1", "0">>, <<>>, <<NL>>)

LineSublevel == FormatLine(kSUBLEVEL, <<>>, <<"0">>, <<>>, <<NL>>)

LinePadded == FormatLine(kPATCHLEVEL, <<" ">>, <<"1">>, <<" ">>, <<NL>>)

LineNoEol == FormatLine(kSUBLEVEL, <<>>, <<"1">>, <<>>, <<>>)

LineNoSep == <<"N", "A", "M", "E", "=", "x", NL>>

LineShapes ==
    {LineComment, LineVersion, LinePatchlevel, LineSublevel, LinePadded, LineNoEol, LineNoSep}

LineSeqs == UNION {[1..n -> LineShapes] : n \in 0..MaxLines}

Makefiles == {Concat(ls) : ls \in LineSeqs}

(***************************************************************************)
(* The patch tree on disk and the patch tool                               *)
(***************************************************************************)
Slash == <<"/">>

PatchSuffix == <<".", "p", "a", "t", "c", "h">>

\* os.path.join(a, b)
path_join(a, b) ==
    IF startswith(b, Slash) THEN b
    ELSE IF a = <<>> \/ endswith(a, Slash) THEN a \o b
    ELSE a \o Slash \o b

\* the file system's view of a path: its components, '' and '.' dropped
Resolve(path) ==
    SelectSeq(split(path, Slash), LAMBDA c : c # <<>> /\ c # <<".">>)

PatchRoot == <<"p">>

SubDir == <<"p", "/", "d">>

DirSet == {Resolve(PatchRoot), Resolve(SubDir)}

nA == <<"a">> \o PatchSuffix

nB == <<"b">> \o PatchSuffix

nC == <<"c">> \o PatchSuffix

nD == <<"d">>

\* the patch files: the region each rewrites, from which content to which.
\* b rewrites what a wrote, so b applies only after a.
PatchFiles ==
    (Resolve(path_join(PatchRoot, nA)) :> [region |-> "r1", from |-> 0, to |-> 1])
    @@ (Resolve(path_join(PatchRoot, nB)) :> [region |-> "r1", from |-> 1, to |-> 2])
    @@ (Resolve(path_join(SubDir, nC)) :> [region |-> "r2", from |-> 0, to |-> 1])

Regions == {"r1", "r2"}

\* os.path.isdir / os.path.exists of a patch file
isdir(path) == Resolve(path) \in DirSet

isfile(path) == Resolve(path) \in DOMAIN PatchFiles

\* os.listdir of a directory without a manifest, in any order
EntryNames(dir) == IF Resolve(dir) = Resolve(PatchRoot) THEN {nA, nB, nD} ELSE {nC}

listdir(dir) ==
    LET names == EntryNames(dir)
    IN  {f \in [1..Cardinality(names) -> names] : \A i, j \in DOMAIN f : f[i] = f[j] => i = j}

\* patch -d kernel -p1 -F0 [-R] < file: the hunk applies only where the region
\* holds exactly the content the patch expects
PatchApplies(tree, pf, reverse) ==
    tree[pf.region] = (IF reverse THEN pf.to ELSE pf.from)

PatchEffect(tree, pf, reverse) ==
    [tree EXCEPT ![pf.region] = IF reverse THEN pf.from ELSE pf.to]

(***************************************************************************)
(* Patch trees the driver is run on                                        *)
(***************************************************************************)
MaxRootEntries == 3

MaxSubEntries == 1

MaxRuns == 2

\* frames of _kernel_patch Python allows before RecursionError
RecursionLimit == 2

RootLines ==
    { <<"a", NL>>, nB \o <<NL>>, <<" ", "d", " ", NL>>, <<NL>> }

SubLines ==
    { <<"c", NL>>, <<"x", NL>>, <<".", NL>> }

NoManifest == [exists |-> FALSE, text |-> <<>>]

Manifest(t) == [exists |-> TRUE, text |-> t]

ManifestsOf(lines, n) ==
    {NoManifest} \cup {Manifest(Concat(ls)) : ls \in UNION {[1..k -> lines] : k \in 0..n}}

PatchTrees ==
    { (Resolve(PatchRoot) :> r) @@ (Resolve(SubDir) :> d) :
        r \in ManifestsOf(RootLines, MaxRootEntries),
        d \in ManifestsOf(SubLines, MaxSubEntries) }

(***************************************************************************)
(* _kernel_patch, one frame per call                                       *)
(***************************************************************************)
NoRun == [st |-> "idle", reverse |-> FALSE, before |-> [r \in Regions |-> 0], exc |-> ""]

Frame(dir, targets) == [dir |-> dir, targets |-> targets, i |-> 1]

\* the same choice with the manifest read bottom-up
TargetLists_bottom_up(dir) ==
    IF ptree[Resolve(dir)].exists
    THEN LET ls == readlines(ptree[Resolve(dir)].text)
         IN  {[i \in 1..Len(ls) |-> ls[Len(ls) + 1 - i]]}
    ELSE listdir(dir)

\* lines 43-49: the manifest's lines when there is one, else the directory listing
TargetLists(dir) ==
    IF ptree[Resolve(dir)].exists
    THEN {readlines(ptree[Resolve(dir)].text)}
    ELSE listdir(dir)

Top == pstack[Len(pstack)]

AtTarget == prun.st = "running" /\ pstack # <<>> /\ Top.i <= Len(Top.targets)

\* line 52
patch_or_dir == path_join(Top.dir, strip(Top.targets[Top.i]))

\* lines 56-57
PatchPath(path) == IF endswith(path, PatchSuffix) THEN path ELSE path \o PatchSuffix

Advance == [pstack EXCEPT ![Len(pstack)].i = @ + 1]

Fail(e) ==
    /\ prun' = [prun EXCEPT !.st = "failed", !.exc = e]
    /\ pstack' = <<>>

\* the `patch` command: kernel_patch -> _kernel_patch(kernel, patches, reverse)
kernel_patch ==
    /\ prun.st # "running"
    /\ Len(plog) + (IF prun.st = "idle" THEN 0 ELSE 1) < MaxRuns
    /\ \E reverse \in BOOLEAN, targets \in TargetLists(PatchRoot) :
        /\ prun' = [st |-> "running", reverse |-> reverse, before |-> ktree, exc |-> ""]
        /\ pstack' = <<Frame(PatchRoot, targets)>>
    /\ plog' = IF prun.st = "idle" THEN plog
               ELSE Append(plog, [run |-> prun, after |-> ktree, handed |-> handed])
    /\ handed' = <<>>
    /\ visited' = <<Resolve(PatchRoot)>>
    /\ UNCHANGED <<ptree, ktree, versionVars, vmVars>>

\* lines 53-54: the target is a directory, recurse into it
PatchDescend ==
    /\ AtTarget
    /\ isdir(patch_or_dir)
    /\ Len(pstack) < RecursionLimit
    /\ \E targets \in TargetLists(patch_or_dir) :
        pstack' = Append(Advance, Frame(patch_or_dir, targets))
    /\ visited' = Append(visited, Resolve(patch_or_dir))
    /\ UNCHANGED <<ptree, ktree, handed, prun, plog, versionVars, vmVars>>

\* the recursion is deeper than Python allows
PatchRecursionError ==
    /\ AtTarget
    /\ isdir(patch_or_dir)
    /\ Len(pstack) >= RecursionLimit
    /\ Fail("RecursionError")
    /\ UNCHANGED <<ptree, ktree, handed, visited, plog, versionVars, vmVars>>

\* line 58: open() of a patch file that is not there
PatchMissing ==
    /\ AtTarget
    /\ ~isdir(patch_or_dir)
    /\ ~isfile(PatchPath(patch_or_dir))
    /\ Fail("FileNotFoundError")
    /\ UNCHANGED <<ptree, ktree, handed, visited, plog, versionVars, vmVars>>

\* line 59: the patch tool applies the file
PatchApplied ==
    /\ AtTarget
    /\ ~isdir(patch_or_dir)
    /\ isfile(PatchPath(patch_or_dir))
    /\ LET file == Resolve(PatchPath(patch_or_dir))
       IN  /\ PatchApplies(ktree, PatchFiles[file], prun.reverse)
           /\ ktree' = PatchEffect(ktree, PatchFiles[file], prun.reverse)
           /\ handed' = Append(handed, [file |-> file, ok |-> TRUE])
    /\ pstack' = Advance
    /\ UNCHANGED <<ptree, visited, prun, plog, versionVars, vmVars>>

\* line 59: the patch tool rejects the file and sh raises ErrorReturnCode
PatchRejected ==
    /\ AtTarget
    /\ ~isdir(patch_or_dir)
    /\ isfile(PatchPath(patch_or_dir))
    /\ LET file == Resolve(PatchPath(patch_or_dir))
       IN  /\ ~PatchApplies(ktree, PatchFiles[file], prun.reverse)
           /\ handed' = Append(handed, [file |-> file, ok |-> FALSE])
    /\ Fail("ErrorReturnCode")
    /\ UNCHANGED <<ptree, ktree, visited, plog, versionVars, vmVars>>

\* line 51: the loop over the targets is over, the call returns
PatchReturn ==
    /\ prun.st = "running"
    /\ pstack # <<>>
    /\ Top.i > Len(Top.targets)
    /\ pstack' = SubSeq(pstack, 1, Len(pstack) - 1)
    /\ prun' = IF Len(pstack) = 1 THEN [prun EXCEPT !.st = "done"] ELSE prun
    /\ UNCHANGED <<ptree, ktree, handed, visited, plog, versionVars, vmVars>>

(***************************************************************************)
(* Packages, hypervisors and the records of calls                          *)
(***************************************************************************)
clone_prerequisites == <<"git">>

make_prerequisites ==
    <<"git", "gcc", "make", "flex", "bison", "fakeroot", "bc", "dpkg-dev", "rsync",
      "libelf-dev", "libssl-dev">>

vm_prerequisites ==
    <<"qemu-system-x86", "libvirt-clients", "bridge-utils", "libvirt-daemon-system",
      "virtinst", "libvirt-dev">>

Range(f) == {f[i] : i \in DOMAIN f}

AllPackages ==
    Range(clone_prerequisites) \cup Range(make_prerequisites) \cup Range(vm_prerequisites)

\* the systems the tool is run on: any of these packages may be absent (one
\* asked for by clone and make, one by make alone, the first and the last of
\* the VM prerequisites)
MaybeMissing == {"git", "make", "qemu-system-x86", "libvirt-dev"}

InstalledSets == {AllPackages \ m : m \in SUBSET MaybeMissing}

DefaultName == <<"d", "e", "b", "i", "a", "n", "1", "0">>

OtherName == <<"v", "m", "1">>

VmNames == {DefaultName, OtherName}

DefaultUri == "qemu:///system"

OtherUri == "qemu:///session"

Uris == {DefaultUri, OtherUri}

DefaultHostname == <<"d", "e", "b", "i", "a", "n">>

DefaultNetwork == <<"d", "e", "f", "a", "u", "l", "t">>

NoVms == [u \in Uris |-> [n \in VmNames |-> "absent"]]

Defined(h, uri) == {n \in VmNames : h[uri][n] # "absent"}

\* one action on the outside world: a command run, a query made, a session
\* opened; ok is FALSE when it failed (a non-zero exit, an exception)
Ext(cmd, uri, arg, ok) ==
    [cmd |-> cmd, pkg |-> "", uri |-> uri, arg |-> arg, ok |-> ok, n |-> 0]

Dpkg(pkg, ok) ==
    [cmd |-> "dpkg -s", pkg |-> pkg, uri |-> "", arg |-> <<>>, ok |-> ok, n |-> 0]

Warn(n) ==
    [cmd |-> "warn", pkg |-> "", uri |-> "", arg |-> <<>>, ok |-> TRUE, n |-> n]

\* what a call did: its exception ("" when it returned) and whom the message
\* names, its return value, its actions in order, the hypervisors after it
Result(exc, about, ret, acts, h) ==
    [exc |-> exc, about |-> about, ret |-> ret, ext |-> acts, hyp |-> h]

Ok(ret, acts, h) == Result("", <<>>, ret, acts, h)

\* an inner call's result after the actions the wrapper made before it
After(acts, r) == [r EXCEPT !.ext = acts \o @]

\* how a function is entered: positional arguments and keyword arguments
NoKwargs == [given |-> {}, name |-> <<>>, uri |-> ""]

Kwargs(name, uri) == [given |-> {"name", "uri"}, name |-> name, uri |-> uri]

\* kwargs.get(key, default)
kwargs_get(kwargs, key, default) == IF key \in kwargs.given THEN kwargs[key] ELSE default

\* the value Python binds to parameter number i, named key
Bound(args, kwargs, i, key, default) ==
    IF i <= Len(args) THEN args[i] ELSE kwargs_get(kwargs, key, default)

(***************************************************************************)
(* check_prerequisites, vm_exists, check_vm_absence                        *)
(***************************************************************************)
FirstMissing(prerequisites, inst) ==
    LET miss == {i \in DOMAIN prerequisites : prerequisites[i] \notin inst}
    IN  IF miss = {} THEN 0 ELSE CHOOSE i \in miss : \A j \in miss : i <= j

\* the wrapper that runs the function without asking dpkg
check_prerequisites_skipped(prerequisites, inst, h, inner) == inner

\* lines 17-24: dpkg -s for each prerequisite in order; sh raises on the first
\* one that is not installed, else the wrapped function runs
check_prerequisites(prerequisites, inst, h, inner) ==
    LET k == FirstMissing(prerequisites, inst)
    IN  IF k = 0
        THEN After([i \in DOMAIN prerequisites |-> Dpkg(prerequisites[i], TRUE)], inner)
        ELSE Result("ErrorReturnCode", <<>>, <<>>,
                    [i \in 1..k |-> Dpkg(prerequisites[i], i < k)], h)

\* virsh --connect uri list --all --name: a name per line, then an empty line
VirshList(h, uri) ==
    (IF DefaultName \in Defined(h, uri) THEN DefaultName \o <<NL>> ELSE <<>>)
    \o (IF OtherName \in Defined(h, uri) THEN OtherName \o <<NL>> ELSE <<>>)
    \o <<NL>>

\* lines 101-105
vm_exists(vm_name, libvirt_connection_uri, inst, h) ==
    check_prerequisites(vm_prerequisites, inst, h,
        Ok(count(split(VirshList(h, libvirt_connection_uri), <<NL>>), vm_name) = 1,
           <<Ext("virsh list", libvirt_connection_uri, vm_name, TRUE)>>, h))

\* lines 140-147: the name and the URI are read from the keyword arguments
\* alone, with the defaults when they are not among them
check_vm_absence(args, kwargs, inst, h, inner) ==
    LET vm == kwargs_get(kwargs, "name", DefaultName)
        uri == kwargs_get(kwargs, "uri", DefaultUri)
        found == vm_exists(vm, uri, inst, h)
    IN  IF found.exc # "" THEN found
        ELSE IF ~found.ret THEN Result("VM not found", vm, <<>>, found.ext, h)
        ELSE After(found.ext, inner)

(***************************************************************************)
(* vm_start, vm_shutdown, vm_destroy, vm_ip, vm_create                     *)
(***************************************************************************)
\* a virsh command on a domain: it succeeds from the states in `from`, and
\* virsh exits non-zero (sh raises) from any other state
Virsh(cmd, name, uri, h, from, to) ==
    IF h[uri][name] \in from
    THEN Ok(<<>>, <<Ext(cmd, uri, name, TRUE)>>, [h EXCEPT ![uri][name] = to])
    ELSE Result("ErrorReturnCode", name, <<>>, <<Ext(cmd, uri, name, FALSE)>>, h)

\* lines 150-153
vm_start(args, kwargs, inst, h) ==
    check_vm_absence(args, kwargs, inst, h,
        check_prerequisites(vm_prerequisites, inst, h,
            Virsh("virsh start",
                  Bound(args, kwargs, 1, "name", DefaultName),
                  Bound(args, kwargs, 2, "uri", DefaultUri),
                  h, {"stopped"}, "running")))

\* lines 156-159
vm_shutdown(args, kwargs, inst, h) ==
    check_vm_absence(args, kwargs, inst, h,
        check_prerequisites(vm_prerequisites, inst, h,
            Virsh("virsh shutdown",
                  Bound(args, kwargs, 1, "name", DefaultName),
                  Bound(args, kwargs, 2, "uri", DefaultUri),
                  h, {"running"}, "stopped")))

\* lines 162-173: undefine with all storage removed
vm_destroy(args, kwargs, inst, h) ==
    check_vm_absence(args, kwargs, inst, h,
        check_prerequisites(vm_prerequisites, inst, h,
            Virsh("virsh undefine",
                  Bound(args, kwargs, 1, "name", DefaultName),
                  Bound(args, kwargs, 2, "uri", DefaultUri),
                  h, {"stopped", "running"}, "absent")))

VmAddress == <<"1", "9", "2", ".", "0", ".", "2", ".", "7">>

\* lines 176-183: leased says whether the network holds a lease for hostname
vm_ip(args, kwargs, inst, h, leased) ==
    check_vm_absence(args, kwargs, inst, h,
        check_prerequisites(vm_prerequisites, inst, h,
            LET name == Bound(args, kwargs, 1, "name", DefaultName)
                uri == Bound(args, kwargs, 3, "uri", DefaultUri)
            IN  IF leased
                THEN Ok(VmAddress, <<Ext("dhcp leases", uri, name, TRUE)>>, h)
                ELSE Result("no lease", name, <<>>,
                            <<Ext("dhcp leases", uri, name, FALSE)>>, h)))

GoodImage == <<"d", "e", "b", "i", "a", "n", "1", "0", ".", "q", "c", "o", "w", "2">>

NoImage == <<"n", "o", "n", "e", ".", "q", "c", "o", "w", "2">>

Images == {GoodImage, NoImage}

\* os.path.exists(img)
ImageExists(img) == img = GoodImage

\* vm_create that looks for the image but not for the name
vm_create_unchecked(img, uri, name, inst, h) ==
    check_prerequisites(vm_prerequisites, inst, h,
        IF ~ImageExists(img) THEN Result("FileNotFoundError", img, <<>>, <<>>, h)
        ELSE Ok(<<>>, <<Ext("virt-install", uri, name, TRUE)>>,
                [h EXCEPT ![uri][name] = "stopped"]))

\* lines 108-137
vm_create(img, uri, name, inst, h) ==
    check_prerequisites(vm_prerequisites, inst, h,
        LET found == vm_exists(name, uri, inst, h)
        IN  IF found.exc # "" THEN found
            ELSE IF found.ret THEN Result("VM already exists", name, <<>>, found.ext, h)
            ELSE IF ~ImageExists(img) THEN Result("FileNotFoundError", img, <<>>, found.ext, h)
            ELSE Ok(<<>>, found.ext \o <<Ext("virt-install", uri, name, TRUE)>>,
                    [h EXCEPT ![uri][name] = "stopped"]))

(***************************************************************************)
(* kernel_clone, kernel_make                                               *)
(***************************************************************************)
\* lines 27-35: cloned says whether the remote holds the tag
kernel_clone(inst, h, cloned) ==
    check_prerequisites(clone_prerequisites, inst, h,
        IF cloned THEN Ok(<<>>, <<Ext("git clone", "", <<>>, TRUE)>>, h)
        ELSE Result("GitCommandError", <<>>, <<>>, <<Ext("git clone", "", <<>>, FALSE)>>, h))

MakeSteps(config) ==
    IF config = "debconfig"
    THEN <<"make clean", "cp", "make olddefconfig", "make bindeb-pkg">>
    ELSE <<"make clean", "make defconfig", "make">>

\* lines 81-95: the steps in order; failing is the number of the step that
\* exits non-zero, 0 when every step succeeds
kernel_make(config, inst, h, failing) ==
    check_prerequisites(make_prerequisites, inst, h,
        LET steps == MakeSteps(config)
            last == IF failing = 0 THEN Len(steps) ELSE failing
        IN  Result(IF failing = 0 THEN "" ELSE "ErrorReturnCode", <<>>, <<>>,
                   [i \in 1..last |-> Ext(steps[i], "", <<>>, i # failing)], h))

(***************************************************************************)
(* vm_test: the package directory, the remote log                          *)
(***************************************************************************)
HeadersPrefix == <<"linux-headers-">>

ImagePrefix == <<"linux-image-">>

DebSuffix == <<".deb">>

Underscore == <<"_">>

v5100 == <<"5", ".", "1", "0", ".", "0">>

Arch == <<"-", "1", "_", "a", "m", "d", "6", "4">>

HeadersDeb == HeadersPrefix \o v5100 \o Underscore \o v5100 \o Arch \o DebSuffix

HeadersDbgDeb == HeadersPrefix \o v5100 \o <<"-", "d", "b", "g">> \o Arch \o DebSuffix

ImageDeb == ImagePrefix \o v5100 \o Underscore \o v5100 \o Arch \o DebSuffix

ImageDbgDeb == ImagePrefix \o v5100 \o <<"-", "d", "b", "g">> \o Arch \o DebSuffix

HeadersTar == HeadersPrefix \o v5100 \o <<".tar">>

\* the package directories on disk, each with its listing; NoDir is not there
DebDirs ==
    (<<"debs">> :> <<HeadersDbgDeb, ImageDbgDeb, HeadersDeb, ImageDeb>>)
    @@ (<<"headers-only">> :> <<HeadersDeb, ImageDbgDeb>>)
    @@ (<<"image-only">> :> <<ImageDeb, HeadersTar>>)
    @@ (<<"empty">> :> <<>>)

NoDir == <<"nowhere">>

DebPaths == DOMAIN DebDirs \cup {NoDir}

\* os.path.exists(debpkg) / os.listdir(debpkg)
DirExists(debpkg) == debpkg \in DOMAIN DebDirs

\* any(names): some name is a non-empty string
any(names) == \E i \in DOMAIN names : names[i] # <<>>

IsHeader(f, version) == endswith(f, DebSuffix) /\ startswith(f, HeadersPrefix \o version)

IsImage(f, version) ==
    endswith(f, DebSuffix) /\ startswith(f, ImagePrefix \o version \o Underscore)

NoPackages == [version |-> <<>>, header |-> <<>>, image |-> <<>>]

\* the search that is content with the headers package alone
LocatePackages_headers_only(text, debpkg, h) ==
    LET v == _kernel_version(text)
        files == DebDirs[debpkg]
        header == SelectSeq(files, LAMBDA f : IsHeader(f, v.ret))
    IN  IF v.exc # "" THEN Result(v.exc, <<>>, NoPackages, <<>>, h)
        ELSE IF ~DirExists(debpkg) THEN Result("FileNotFoundError", debpkg, NoPackages, <<>>, h)
        ELSE IF ~any(header)
        THEN Result("FileNotFoundError", <<"no kernel headers">>, NoPackages,
                    <<Ext("listdir", "", debpkg, TRUE)>>, h)
        ELSE Ok([version |-> v.ret, header |-> header[1], image |-> header[1]],
                <<Ext("listdir", "", debpkg, TRUE)>>, h)

\* lines 200-216: the version, then the first headers and image packages of it
LocatePackages(text, debpkg, h) ==
    LET v == _kernel_version(text)
        files == DebDirs[debpkg]
        header == SelectSeq(files, LAMBDA f : IsHeader(f, v.ret))
        image == SelectSeq(files, LAMBDA f : IsImage(f, v.ret))
    IN  IF v.exc # "" THEN Result(v.exc, <<>>, NoPackages, <<>>, h)
        ELSE IF ~DirExists(debpkg) THEN Result("FileNotFoundError", debpkg, NoPackages, <<>>, h)
        ELSE IF ~any(header)
        THEN Result("FileNotFoundError", <<"no kernel headers">>, NoPackages,
                    <<Ext("listdir", "", debpkg, TRUE)>>, h)
        ELSE IF ~any(image)
        THEN Result("FileNotFoundError", <<"no installation kernel image">>, NoPackages,
                    <<Ext("listdir", "", debpkg, TRUE)>>, h)
        ELSE Ok([version |-> v.ret, header |-> header[1], image |-> image[1]],
                <<Ext("listdir", "", debpkg, TRUE)>>, h)

\* what dmesg -HTl emerg,alert,crit,err may print
DmesgOutputs ==
    { <<>>,
      <<NL>>,
      <<"e", "r", "r", NL>>,
      <<"e", "r", "r", NL, NL, "o", "o", "p", "s", NL>> }

\* line 261
boot_errors(errors) == Len(SelectSeq(split(errors, <<NL>>), LAMBDA line : line # <<>>))

\* the kernel trees vm-test is run on, each with the text of its Makefile
KernelTrees ==
    (<<"linux">> :> Concat(<<LineComment, LineVersion, LinePatchlevel, LineSublevel, LineNoSep>>))
    @@ (<<"short">> :> Concat(<<LineComment, LineVersion, LinePatchlevel>>))
    @@ (<<"broken">> :> Concat(<<LineComment, LineVersion, LineNoSep, LineSublevel>>))

(***************************************************************************)
(* The commands and calls, and vm_test step by step                        *)
(***************************************************************************)
NoLocals ==
    [name |-> <<>>, uri |-> "", kernel |-> <<>>, debpkg |-> <<>>, version |-> <<>>,
     header |-> <<>>,
     image |-> <<>>, ip |-> <<>>, errors |-> <<>>]

NoOutcome == [fn |-> "", st |-> "idle", exc |-> "", about |-> <<>>]

Outcome(fn, r) == [fn |-> fn, st |-> "done", exc |-> r.exc, about |-> r.about]

\* a guarded call as it was made, the hypervisors before it, and its result
CallRec(fn, name, uri, style, h, r) ==
    [fn |-> fn, name |-> name, uri |-> uri, style |-> style, img |-> <<>>,
     before |-> h, res |-> r]

ArgsOf(style, positional) == IF style = "pos" THEN positional ELSE <<>>

KwargsOf(style, name, uri) == IF style = "pos" THEN NoKwargs ELSE Kwargs(name, uri)

Styles == {"kw", "pos"}

\* a process that has run nothing yet
Fresh == pc = "idle" /\ out.st = "idle"

\* the process ends; the next command starts in a new one, with the
\* hypervisors as this one left them
Exit ==
    /\ pc = "idle"
    /\ out.st = "done"
    /\ out' = NoOutcome
    /\ calls' = <<>>
    /\ ext' = <<>>
    /\ loc' = NoLocals
    /\ UNCHANGED <<hyp, pc, session, installed, makefile, vout, patchVars>>

\* a command or call that runs to its end in one step
Returns(fn, r) ==
    /\ out' = Outcome(fn, r)
    /\ hyp' = r.hyp
    /\ ext' = r.ext
    /\ pc' = "idle"
    /\ session' = "none"
    /\ loc' = NoLocals
    /\ UNCHANGED <<installed, makefile, vout, patchVars>>

CallVmExists ==
    /\ Fresh
    /\ \E name \in VmNames, uri \in Uris :
        /\ Returns("vm_exists", vm_exists(name, uri, installed, hyp))
        /\ calls' = <<>>

CallVmStart ==
    /\ Fresh
    /\ \E name \in VmNames, uri \in Uris, style \in Styles :
        LET r == vm_start(ArgsOf(style, <<name, uri>>), KwargsOf(style, name, uri),
                          installed, hyp)
        IN  /\ Returns("vm_start", r)
            /\ calls' = <<CallRec("vm_start", name, uri, style, hyp, r)>>

CallVmShutdown ==
    /\ Fresh
    /\ \E name \in VmNames, uri \in Uris, style \in Styles :
        LET r == vm_shutdown(ArgsOf(style, <<name, uri>>), KwargsOf(style, name, uri),
                             installed, hyp)
        IN  /\ Returns("vm_shutdown", r)
            /\ calls' = <<CallRec("vm_shutdown", name, uri, style, hyp, r)>>

\* the vm-destroy command (click passes every option by keyword), or a call
CallVmDestroy ==
    /\ Fresh
    /\ \E name \in VmNames, uri \in Uris, style \in Styles :
        LET r == vm_destroy(ArgsOf(style, <<name, uri>>), KwargsOf(style, name, uri),
                            installed, hyp)
        IN  /\ Returns("vm_destroy", r)
            /\ calls' = <<CallRec("vm_destroy", name, uri, style, hyp, r)>>

CallVmIp ==
    /\ Fresh
    /\ \E name \in VmNames, uri \in Uris, style \in Styles, leased \in BOOLEAN :
        LET r == vm_ip(ArgsOf(style, <<name, DefaultHostname, uri, DefaultNetwork>>),
                       KwargsOf(style, name, uri), installed, hyp, leased)
        IN  /\ Returns("vm_ip", r)
            /\ calls' = <<CallRec("vm_ip", name, uri, style, hyp, r)>>

\* the vm-create command
CallVmCreate ==
    /\ Fresh
    /\ \E name \in VmNames, uri \in Uris, img \in Images :
        LET r == vm_create(img, uri, name, installed, hyp)
        IN  /\ Returns("vm_create", r)
            /\ calls' = <<[CallRec("vm_create", name, uri, "kw", hyp, r) EXCEPT !.img = img]>>

\* the clone command
CallKernelClone ==
    /\ Fresh
    /\ \E cloned \in BOOLEAN : Returns("kernel_clone", kernel_clone(installed, hyp, cloned))
    /\ calls' = <<>>

\* the make command
CallKernelMake ==
    /\ Fresh
    /\ \E config \in {"defconfig", "debconfig"} :
        \E failing \in 0..Len(MakeSteps(config)) :
            Returns("kernel_make", kernel_make(config, installed, hyp, failing))
    /\ calls' = <<>>

\* a `with` block that lets its session stay open when it is left
CloseOnExit_leaked == <<>>

\* leaving vm_test by an exception: a `with` block that is open closes its
\* session on the way out (lines 226, 251)
CloseOnExit == IF session = "open" THEN <<Ext("ssh close", "", loc.ip, TRUE)>> ELSE <<>>

Abort(exc, about, actions) ==
    /\ out' = [fn |-> "vm_test", st |-> "done", exc |-> exc, about |-> about]
    /\ ext' = ext \o actions \o CloseOnExit
    /\ session' = "none"
    /\ pc' = "idle"

Goes(next, actions) ==
    /\ pc' = next
    /\ ext' = ext \o actions
    /\ out' = out

\* the vm-test command, lines 186-216: the guards, then the packages
CallVmTest ==
    /\ Fresh
    /\ \E name \in VmNames, uri \in Uris, kernel \in DOMAIN KernelTrees, debpkg \in DebPaths :
        LET r == check_vm_absence(<<>>, Kwargs(name, uri), installed, hyp,
                     check_prerequisites(vm_prerequisites, installed, hyp,
                         LocatePackages(KernelTrees[kernel], debpkg, hyp)))
        IN  /\ calls' = <<CallRec("vm_test", name, uri, "kw", hyp, r)>>
            /\ ext' = r.ext
            /\ IF r.exc # ""
               THEN /\ out' = Outcome("vm_test", r)
                    /\ pc' = "idle"
                    /\ loc' = [NoLocals EXCEPT !.name = name, !.uri = uri, !.kernel = kernel,
                                               !.debpkg = debpkg]
               ELSE /\ out' = [fn |-> "vm_test", st |-> "running", exc |-> "", about |-> <<>>]
                    /\ pc' = "start"
                    /\ loc' = [NoLocals EXCEPT !.name = name, !.uri = uri, !.kernel = kernel,
                                               !.debpkg = debpkg,
                                               !.version = r.ret.version,
                                               !.header = r.ret.header,
                                               !.image = r.ret.image]
    /\ session' = "none"
    /\ UNCHANGED <<hyp, installed, makefile, vout, patchVars>>

\* line 218: vm_start(name, uri)
VmTestStart ==
    /\ pc = "start"
    /\ LET r == vm_start(<<loc.name, loc.uri>>, NoKwargs, installed, hyp)
       IN  /\ calls' = Append(calls, CallRec("vm_start", loc.name, loc.uri, "pos", hyp, r))
           /\ hyp' = r.hyp
           /\ IF r.exc # "" THEN Abort(r.exc, r.about, r.ext) ELSE Goes("ip", r.ext)
    /\ UNCHANGED <<loc, session, installed, makefile, vout, patchVars>>

\* lines 221-223: vm_ip(name, hostname, uri, network) after the boot delay
VmTestIp ==
    /\ pc = "ip"
    /\ \E leased \in BOOLEAN :
        LET r == vm_ip(<<loc.name, DefaultHostname, loc.uri, DefaultNetwork>>, NoKwargs,
                       installed, hyp, leased)
        IN  /\ calls' = Append(calls, CallRec("vm_ip", loc.name, loc.uri, "pos", hyp, r))
            /\ hyp' = r.hyp
            /\ IF r.exc # ""
               THEN Abort(r.exc, r.about, r.ext) /\ loc' = loc
               ELSE Goes("connect1", r.ext) /\ loc' = [loc EXCEPT !.ip = r.ret]
    /\ UNCHANGED <<session, installed, makefile, vout, patchVars>>

\* one remote step of vm_test: it is made, and either succeeds and vm_test
\* goes on, or raises and vm_test is left
Remote(at, next, cmd, arg, status) ==
    /\ pc = at
    /\ \E ok \in BOOLEAN :
        LET action == [Ext(cmd, "", arg, ok) EXCEPT !.n = IF ok THEN status ELSE 0]
        IN  IF ok
            THEN Goes(next, <<action>>) /\ session' = (IF cmd = "ssh connect" THEN "open" ELSE session)
            ELSE Abort(IF cmd = "scp put" THEN "SCPException" ELSE "SSHException", arg, <<action>>)
    /\ UNCHANGED <<hyp, calls, installed, makefile, vout, patchVars>>

\* lines 226-229
VmTestConnect == Remote("connect1", "put_image", "ssh connect", loc.ip, 0) /\ loc' = loc

\* line 234
VmTestPutImage == Remote("put_image", "put_header", "scp put", loc.image, 0) /\ loc' = loc

\* line 236
VmTestPutHeader == Remote("put_header", "install", "scp put", loc.header, 0) /\ loc' = loc

\* lines 241-243: the exit status of dpkg -i is not looked at
VmTestInstall ==
    \E status \in {0, 1} :
        Remote("install", "reboot", "ssh exec", <<"dpkg -i">>, status) /\ loc' = loc

\* lines 245-247
VmTestReboot == Remote("reboot", "close1", "ssh exec", <<"reboot">>, 0) /\ loc' = loc

\* a first `with` block that is left with its session still open
VmTestClose_kept_open ==
    /\ pc = "close1"
    /\ Goes("connect2", <<>>)
    /\ UNCHANGED <<hyp, calls, loc, session, installed, makefile, vout, patchVars>>

\* the end of the first `with` block, then the reboot delay (line 248)
VmTestClose ==
    /\ pc = "close1"
    /\ Goes("connect2", <<Ext("ssh close", "", loc.ip, TRUE)>>)
    /\ session' = "none"
    /\ UNCHANGED <<hyp, calls, loc, installed, makefile, vout, patchVars>>

\* lines 251-254
VmTestReconnect == Remote("connect2", "dmesg", "ssh connect", loc.ip, 0) /\ loc' = loc

\* lines 255-258
VmTestDmesg ==
    \E errors \in DmesgOutputs :
        /\ Remote("dmesg", "close2", "ssh exec", <<"dmesg">>, 0)
        /\ loc' = IF pc' = "close2" THEN [loc EXCEPT !.errors = errors] ELSE loc

\* the end of the second `with` block
VmTestCloseAgain ==
    /\ pc = "close2"
    /\ Goes("verdict", <<Ext("ssh close", "", loc.ip, TRUE)>>)
    /\ session' = "none"
    /\ UNCHANGED <<hyp, calls, loc, installed, makefile, vout, patchVars>>

\* lines 260-263: any output at all is a warning, with the count of its
\* non-empty lines, and the VM is left as it is
VmTestWarn ==
    /\ pc = "verdict"
    /\ loc.errors # <<>>
    /\ out' = [out EXCEPT !.st = "done"]
    /\ ext' = Append(ext, Warn(boot_errors(loc.errors)))
    /\ pc' = "idle"
    /\ UNCHANGED <<hyp, calls, loc, session, installed, makefile, vout, patchVars>>

\* line 264: vm_shutdown(name, uri)
VmTestShutdown ==
    /\ pc = "verdict"
    /\ loc.errors = <<>>
    /\ LET r == vm_shutdown(<<loc.name, loc.uri>>, NoKwargs, installed, hyp)
       IN  /\ calls' = Append(calls, CallRec("vm_shutdown", loc.name, loc.uri, "pos", hyp, r))
           /\ hyp' = r.hyp
           /\ out' = [out EXCEPT !.st = "done", !.exc = r.exc, !.about = r.about]
           /\ ext' = ext \o r.ext
           /\ pc' = "idle"
    /\ UNCHANGED <<loc, session, installed, makefile, vout, patchVars>>

VmIdle ==
    /\ installed = AllPackages
    /\ hyp = NoVms
    /\ pc = "idle"
    /\ out = NoOutcome
    /\ calls = <<>>
    /\ ext = <<>>
    /\ loc = NoLocals
    /\ session = "none"

\* the `version` command: kernel_version -> _kernel_version(kernel)
kernel_version ==
    /\ vout.st = "idle"
    /\ vout' = Done(_kernel_version(makefile))
    /\ UNCHANGED <<makefile, patchVars, vmVars>>

(***************************************************************************)
(* The specifications                                                      *)
(***************************************************************************)
PatchIdle ==
    /\ ktree = [r \in Regions |-> 0]
    /\ pstack = <<>>
    /\ handed = <<>>
    /\ visited = <<>>
    /\ prun = NoRun
    /\ plog = <<>>

VersionIdle ==
    /\ makefile = <<>>
    /\ vout = NoCall

PatchInit ==
    /\ ptree \in PatchTrees
    /\ PatchIdle
    /\ VersionIdle
    /\ VmIdle

PatchNext ==
    \/ kernel_patch
    \/ PatchDescend
    \/ PatchRecursionError
    \/ PatchMissing
    \/ PatchApplied
    \/ PatchRejected
    \/ PatchReturn

SpecPatch == PatchInit /\ [][PatchNext]_vars

VersionInit ==
    /\ makefile \in Makefiles
    /\ vout = NoCall
    /\ ptree = [d \in DirSet |-> NoManifest]
    /\ PatchIdle
    /\ VmIdle

VersionNext == kernel_version

SpecVersion == VersionInit /\ [][VersionNext]_vars

VmInit ==
    /\ installed \in InstalledSets
    /\ makefile = <<>>
    /\ hyp = NoVms
    /\ pc = "idle"
    /\ out = NoOutcome
    /\ calls = <<>>
    /\ ext = <<>>
    /\ loc = NoLocals
    /\ session = "none"
    /\ vout = NoCall
    /\ ptree = [d \in DirSet |-> NoManifest]
    /\ PatchIdle

VmNext ==
    \/ CallKernelClone
    \/ CallKernelMake
    \/ CallVmExists
    \/ CallVmCreate
    \/ CallVmStart
    \/ CallVmShutdown
    \/ CallVmDestroy
    \/ CallVmIp
    \/ CallVmTest
    \/ VmTestStart
    \/ VmTestIp
    \/ VmTestConnect
    \/ VmTestPutImage
    \/ VmTestPutHeader
    \/ VmTestInstall
    \/ VmTestReboot
    \/ VmTestClose
    \/ VmTestReconnect
    \/ VmTestDmesg
    \/ VmTestCloseAgain
    \/ VmTestWarn
    \/ VmTestShutdown
    \/ Exit

Spec == VmInit /\ [][VmNext]_vars

(***************************************************************************)
(* Claims about the patch driver                                           *)
(***************************************************************************)
IsPrefix(a, b) == Len(a) <= Len(b) /\ SubSeq(b, 1, Len(a)) = a

AllManifests == \A d \in DirSet : ptree[d].exists

\* the depth-first traversal of the patch tree in manifest line order: a line
\* naming a directory stands for that directory's own traversal, any other
\* line for the patch file it names. depth is the number of directories open.
RECURSIVE Traversal(_, _)
RECURSIVE TraverseLines(_, _, _)
Traversal(dir, depth) ==
    TraverseLines(dir, readlines(ptree[Resolve(dir)].text), depth)

TraverseLines(dir, lines, depth) ==
    IF lines = <<>> THEN <<>>
    ELSE LET entry == path_join(dir, strip(Head(lines)))
             here == IF isdir(entry)
                     THEN IF depth < RecursionLimit THEN Traversal(entry, depth + 1) ELSE <<>>
                     ELSE <<Resolve(PatchPath(entry))>>
         IN  here \o TraverseLines(dir, Tail(lines), depth)

HandedFiles == [i \in 1..Len(handed) |-> handed[i].file]

\* the tree after the patches the tool accepted, in the order it accepted them
RECURSIVE AfterAccepted(_, _, _)
AfterAccepted(tree, hs, reverse) ==
    IF hs = <<>> THEN tree
    ELSE AfterAccepted(IF Head(hs).ok THEN PatchEffect(tree, PatchFiles[Head(hs).file], reverse)
                       ELSE tree,
                       Tail(hs), reverse)

\* C6: when every directory has a manifest, the patch files one invocation
\* hands to the patch tool are a prefix of the depth-first traversal in
\* manifest line order; only the last one handed can be a rejected one (the
\* invocation has then failed), and the kernel tree holds every accepted
\* patch's effect: nothing is rolled back.
C6_ManifestOrderStopAtFirstReject ==
    (AllManifests /\ prun.st # "idle") =>
        /\ IsPrefix(HandedFiles, Traversal(PatchRoot, 1))
        /\ \A i \in 1..Len(handed) : ~handed[i].ok => (i = Len(handed) /\ prun.st = "failed")
        /\ ktree = AfterAccepted(prun.before, handed, prun.reverse)

\* a run over root and sub-directory manifests that applied a patch of the
\* sub-directory and then had a later patch rejected
C6_Witness ==
    /\ AllManifests
    /\ prun.st = "failed"
    /\ prun.exc = "ErrorReturnCode"
    /\ Len(handed) >= 2
    /\ handed[1].file = Resolve(path_join(SubDir, nC))
    /\ handed[1].ok
    /\ ~handed[Len(handed)].ok
    /\ ktree # prun.before

LastRun == plog[Len(plog)]

\* C7: if patch(T, P) succeeds giving T', then patch(T', P, reverse) succeeds
\* and yields a tree with exactly the content of T.
C7_ApplyThenReverseRestores ==
    (/\ plog # <<>>
     /\ LastRun.run.st = "done"
     /\ ~LastRun.run.reverse
     /\ prun.reverse
     /\ prun.st \in {"done", "failed"})
    => /\ prun.st = "done"
       /\ ktree = LastRun.run.before

(***************************************************************************)
(* Claims about the version reader                                         *)
(***************************************************************************)
\* a line of the form 'KEY = value': a key, the separator, a value free of
\* blanks and of the separator, optional blanks around it
IsKeyValue(line) ==
    \E k \in Keys, v \in Values, pl \in Pad, pr \in Pad, e \in Eol :
        line = FormatLine(k, pl, v, pr, e)

ValueOf(line) ==
    CHOOSE v \in Values :
        \E k \in Keys, pl \in Pad, pr \in Pad, e \in Eol : line = FormatLine(k, pl, v, pr, e)

ManifestLines == readlines(makefile)

\* C8: for a build manifest of at least four lines whose lines 2, 3 and 4 have
\* the form 'KEY = value', version returns value2.value3.value4, trimmed,
\* whatever line 1 and the lines after line 4 hold.
C8_VersionJoinsLines2To4 ==
    (/\ vout.st = "done"
     /\ Len(ManifestLines) >= 4
     /\ \A i \in 2..4 : IsKeyValue(ManifestLines[i]))
    => /\ vout.exc = ""
       /\ vout.ret = ValueOf(ManifestLines[2]) \o Dot \o ValueOf(ManifestLines[3])
                        \o Dot \o ValueOf(ManifestLines[4])

\* the spec's example, with a padded variant of it: 5.10.0 from VERSION = 5,
\* PATCHLEVEL = 10, SUBLEVEL = 0 between two lines that are not KEY = value
C8_Witness ==
    /\ vout.st = "done"
    /\ makefile = Concat(<<LineNoSep, LineVersion, LinePatchlevel, LineSublevel, LineNoSep>>)
    /\ vout.exc = ""
    /\ vout.ret = <<"5", ".", "1", "0", ".", "0">>

\* a line that holds no ' = ' separator at all
NoSeparator(line) == find(line, FieldSep) = 0

\* C9: version fails for every manifest of fewer than four lines and for every
\* manifest with a malformed line among lines 2-4, and never returns fewer
\* than three dot-joined fields.
C9_VersionFailsOnShortOrMalformed ==
    vout.st = "done" =>
        /\ Len(ManifestLines) < 4 => vout.exc # ""
        /\ (\E i \in 2..4 : i <= Len(ManifestLines) /\ NoSeparator(ManifestLines[i]))
               => vout.exc # ""
        /\ vout.exc = "" => Len(split(vout.ret, Dot)) >= 3

(***************************************************************************)
(* Properties of the VM operations (specification Spec)                    *)
(***************************************************************************)
VmReady == Range(vm_prerequisites) \subseteq installed

Guarded == {"vm_start", "vm_shutdown", "vm_destroy", "vm_ip"}

HypervisorCommands == {"virsh start", "virsh shutdown", "virsh undefine", "dhcp leases"}

Commands(acts) == {acts[i].cmd : i \in DOMAIN acts}

ListQueries(acts) == SelectSeq(acts, LAMBDA a : a.cmd = "virsh list")

\* C1: every call of vm_start, vm_shutdown, vm_destroy and vm_ip for a name n
\* on a URI u, by keyword or by position, first asks the hypervisor's list of
\* u for n, and when n is not listed it raises 'Virtual machine n not found'
\* and issues none of virsh start / shutdown / undefine or the lease lookup.
C1_GuardAsksForTheSameVm ==
    \A i \in DOMAIN calls :
        (calls[i].fn \in Guarded /\ VmReady) =>
            LET c == calls[i]
                asked == ListQueries(c.res.ext)
            IN  /\ asked # <<>>
                /\ asked[1].uri = c.uri
                /\ asked[1].arg = c.name
                /\ c.name \notin Defined(c.before, c.uri) =>
                       /\ c.res.exc = "VM not found"
                       /\ c.res.about = c.name
                       /\ Commands(c.res.ext) \cap HypervisorCommands = {}

LogCollected ==
    \E i \in DOMAIN ext : ext[i].cmd = "ssh exec" /\ ext[i].arg = <<"dmesg">> /\ ext[i].ok

ShutdownInvoked == \E i \in DOMAIN calls : calls[i].fn = "vm_shutdown"

Warned(k) == \E i \in DOMAIN ext : ext[i] = Warn(k)

\* C2: in a vm_test run that collected the log, zero non-empty lines of
\* output mean vm_shutdown is invoked, and k > 0 non-empty lines mean a
\* warning with exactly k and no vm_shutdown: vm_shutdown is invoked exactly
\* when the count is zero.
C2_ShutdownIffNoErrorLines ==
    (out.fn = "vm_test" /\ out.st = "done" /\ LogCollected) =>
        LET k == boot_errors(loc.errors)
        IN  /\ ShutdownInvoked <=> k = 0
            /\ k > 0 => Warned(k)

CreateDone == out.fn = "vm_create" /\ out.st = "done" /\ VmReady

\* C3: with its prerequisites installed, vm_create issues virt-install only
\* when the name is not in the hypervisor's list and the image file exists;
\* a listed name fails with already-exists whatever the image is, a missing
\* image fails with not-found, and in both cases nothing is created and the
\* defined VMs are as before.
C3_CreateOnlyNewVmWithImage ==
    CreateDone =>
        LET c == calls[1]
            listed == c.name \in Defined(c.before, c.uri)
        IN  /\ "virt-install" \in Commands(ext) => (~listed /\ ImageExists(c.img))
            /\ listed => out.exc = "VM already exists"
            /\ (~listed /\ ~ImageExists(c.img)) => out.exc = "FileNotFoundError"
            /\ out.exc \in {"VM already exists", "FileNotFoundError"} =>
                   /\ "virt-install" \notin Commands(ext)
                   /\ hyp = c.before
            /\ (~listed /\ ImageExists(c.img)) =>
                   /\ out.exc = ""
                   /\ Defined(hyp, c.uri) = Defined(c.before, c.uri) \cup {c.name}

C3_Witness ==
    /\ CreateDone
    /\ calls[1].name \in Defined(calls[1].before, calls[1].uri)
    /\ ~ImageExists(calls[1].img)
    /\ out.exc = "VM already exists"

\* the run of vm_test in hand, and whether its guards let the body run
TestRun == out.fn = "vm_test" /\ out.st # "idle"

BodyEntered == VmReady /\ calls[1].name \in Defined(calls[1].before, calls[1].uri)

\* the conditions of the claim, stated on the directory and the version
PackagesMissing(v, debpkg) ==
    \/ ~DirExists(debpkg)
    \/ ~\E i \in DOMAIN DebDirs[debpkg] :
           /\ endswith(DebDirs[debpkg][i], DebSuffix)
           /\ startswith(DebDirs[debpkg][i], HeadersPrefix \o v)
    \/ ~\E i \in DOMAIN DebDirs[debpkg] :
           /\ endswith(DebDirs[debpkg][i], DebSuffix)
           /\ startswith(DebDirs[debpkg][i], ImagePrefix \o v \o Underscore)

TestVersion == _kernel_version(KernelTrees[loc.kernel])

\* C4: when the package directory does not exist, or holds no '.deb' file
\* starting with 'linux-headers-v', or none starting with 'linux-image-v_',
\* for the version v of the kernel, a vm_test whose body runs fails with a
\* not-found error; virsh start is never issued, no SSH session is opened,
\* and the VMs are in the state they were in before the call.
C4_NoPackagesNoStart ==
    (TestRun /\ TestVersion.exc = "" /\ PackagesMissing(TestVersion.ret, loc.debpkg)) =>
        /\ "virsh start" \notin Commands(ext)
        /\ "ssh connect" \notin Commands(ext)
        /\ hyp = calls[1].before
        /\ out.st = "done"
        /\ BodyEntered => out.exc = "FileNotFoundError"

C4_Witness ==
    /\ TestRun
    /\ BodyEntered
    /\ loc.kernel = <<"linux">>
    /\ loc.debpkg = <<"headers-only">>
    /\ out.exc = "FileNotFoundError"

Required(fn) ==
    IF fn = "kernel_clone" THEN Range(clone_prerequisites)
    ELSE IF fn = "kernel_make" THEN Range(make_prerequisites)
    ELSE Range(vm_prerequisites)

\* C5: when a package an operation requires is not installed, the operation
\* fails, and everything it and the guards around it did to the outside
\* world is to ask dpkg for the status of packages.
C5_MissingPackageStopsEverything ==
    (out.st = "done" /\ ~(Required(out.fn) \subseteq installed)) =>
        /\ out.exc # ""
        /\ Commands(ext) \subseteq {"dpkg -s"}
        /\ \A i \in DOMAIN calls : Commands(calls[i].res.ext) \subseteq {"dpkg -s"}

C5_Witness ==
    /\ out.st = "done"
    /\ out.fn = "vm_test"
    /\ "libvirt-dev" \notin installed
    /\ "qemu-system-x86" \in installed
    /\ out.exc = "ErrorReturnCode"
    /\ Len(ext) = Len(vm_prerequisites)

(***************************************************************************)
(* The steps of vm_test as seen from outside                               *)
(***************************************************************************)
Visible(acts) == SelectSeq(acts, LAMBDA a : a.cmd \notin {"dpkg -s", "virsh list"})

Label(a) ==
    CASE a.cmd = "listdir" -> "locate packages"
      [] a.cmd = "virsh start" -> "start VM"
      [] a.cmd = "dhcp leases" -> "resolve IP"
      [] a.cmd = "ssh connect" -> "open session"
      [] a.cmd = "scp put" -> IF a.arg = loc.image THEN "upload image" ELSE "upload headers"
      [] a.cmd = "ssh exec" /\ a.arg = <<"dpkg -i">> -> "remote install"
      [] a.cmd = "ssh exec" /\ a.arg = <<"reboot">> -> "remote reboot"
      [] a.cmd = "ssh exec" /\ a.arg = <<"dmesg">> -> "log query"
      [] a.cmd = "ssh close" -> "close session"
      [] a.cmd = "virsh shutdown" -> "shutdown"
      [] a.cmd = "virsh undefine" -> "destroy"
      [] a.cmd = "warn" -> "warning"
      [] OTHER -> a.cmd

Steps == [i \in DOMAIN Visible(ext) |-> Label(Visible(ext)[i])]

Thrown == {i \in DOMAIN Visible(ext) : ~Visible(ext)[i].ok}

Endings == {"shutdown", "warning"}

\* the sequence as the claim gives it
ClaimedSequence(last) ==
    <<"locate packages", "start VM", "resolve IP", "open session", "upload image",
      "upload headers", "remote install", "remote reboot", "close session",
      "open session", "log query", last>>

\* the sequence of lines 200-264: the second `with` block closes its session too
Protocol(last) ==
    <<"locate packages", "start VM", "resolve IP", "open session", "upload image",
      "upload headers", "remote install", "remote reboot", "close session",
      "open session", "log query", "close session", last>>

InSession == {"upload image", "upload headers", "remote install", "remote reboot", "log query"}

InstallIgnored ==
    \A i \in DOMAIN Visible(ext) :
        (Steps[i] = "remote install" /\ Visible(ext)[i].ok /\ Visible(ext)[i].n # 0
         /\ out.st = "done") =>
            (i < Len(Steps) /\ Steps[i + 1] = "remote reboot")

\* C10 as stated: the steps of a vm_test run are a prefix of locate, start,
\* resolve IP, open, upload image, upload headers, install, reboot, close,
\* open again, log query, shutdown-or-warning; a step that throws is the last
\* one; a non-zero exit of the install does not stop the reboot.
C10_StepsPrefixOfClaimedSequence ==
    TestRun =>
        /\ \E last \in Endings : IsPrefix(Steps, ClaimedSequence(last))
        /\ \A i \in Thrown : i = Len(Steps)
        /\ InstallIgnored

\* C10: the steps of a vm_test run are a prefix of the sequence in which a
\* close of the second session stands between the log query and the
\* shutdown-or-warning, except that a step that throws while a session is
\* open is followed by the close of that session and by nothing else; at most
\* one step throws, nothing but that close follows it (no shutdown, no
\* destroy), a run that returns has made every step once with two uploads,
\* and a non-zero exit of the install is followed by the reboot.
C10_StepsFollowProtocol ==
    TestRun =>
        /\ \E last \in Endings :
               IF Thrown = {}
               THEN IsPrefix(Steps, Protocol(last))
               ELSE \E k \in Thrown :
                        /\ Thrown = {k}
                        /\ IsPrefix(SubSeq(Steps, 1, k), Protocol(last))
                        /\ out.st = "done" /\ out.exc # ""
                        /\ Steps = SubSeq(Steps, 1, k)
                                   \o (IF Steps[k] \in InSession THEN <<"close session">> ELSE <<>>)
        /\ "destroy" \notin Range(Steps)
        /\ (out.st = "done" /\ out.exc = "") =>
               /\ \E last \in Endings : Steps = Protocol(last)
               /\ Cardinality({i \in DOMAIN ext : ext[i].cmd = "scp put"}) = 2
        /\ InstallIgnored

C10_Witness ==
    /\ TestRun
    /\ out.st = "done"
    /\ out.exc = "SCPException"
    /\ Steps = <<"locate packages", "start VM", "resolve IP", "open session",
                 "upload image", "upload headers", "close session">>

(***************************************************************************)
(* The remote shell sessions of vm_test                                    *)
(***************************************************************************)
\* the sessions open after the first k actions of the run: one more for each
\* connect that succeeded, one less for each close
OpenAfter(k) ==
    Cardinality({i \in 1..k : ext[i].cmd = "ssh connect" /\ ext[i].ok})
    - Cardinality({i \in 1..k : ext[i].cmd = "ssh close"})

RemoteCommands == {"scp put", "ssh exec"}

\* C11: during vm_test at most one remote shell session is open at any
\* time, every upload, install, reboot and log query is issued while a
\* session is open, and when vm_test is left (by its return, by the warning
\* return or by an exception at any step) no session is open.
C11_OneSessionClosedOnEveryExit ==
    TestRun =>
        /\ \A k \in 0..Len(ext) : OpenAfter(k) \in {0, 1}
        /\ \A k \in DOMAIN ext : ext[k].cmd \in RemoteCommands => OpenAfter(k - 1) = 1
        /\ session = "open" <=> OpenAfter(Len(ext)) = 1
        /\ out.st = "done" => (OpenAfter(Len(ext)) = 0 /\ session = "none")

\* a run left by an exception of the log query, inside the second session
C11_Witness ==
    /\ TestRun
    /\ out.st = "done"
    /\ out.exc = "SSHException"
    /\ \E k \in DOMAIN ext :
           /\ ext[k].cmd = "ssh exec" /\ ext[k].arg = <<"dmesg">> /\ ~ext[k].ok
           /\ OpenAfter(k) = 1
    /\ Cardinality({i \in DOMAIN ext : ext[i].cmd = "ssh connect" /\ ext[i].ok}) = 2
    /\ OpenAfter(Len(ext)) = 0

(***************************************************************************)
(* Termination and single visits of the patch driver                       *)
(***************************************************************************)
NoRepeat(seq) == \A i, j \in DOMAIN seq : seq[i] = seq[j] => i = j

\* C12: whatever the manifests hold (blank lines, a trailing empty line, an
\* entry '.'), a patch invocation comes to its end without running out of
\* recursion depth, is called on each directory of the tree at most once and
\* hands each patch file to the patch tool at most once.
C12_EachDirectoryAndPatchOnce ==
    prun.st # "idle" =>
        /\ prun.exc # "RecursionError"
        /\ NoRepeat(visited)
        /\ NoRepeat(HandedFiles)

====
